---- MODULE Spec2Model ----
(***************************************************************************)
(* Jukephone (src/main.c): the playback control core of a telephone turned *)
(* jukebox.  The main loop scans the keypad and runs the key handlers; the *)
(* alarm pool of the Pico SDK runs input_timeout, scheduled_play and the   *)
(* repeating poll_player as interrupt callbacks.  A callback runs to       *)
(* completion, and it can preempt a key handler between any two accesses   *)
(* of the handler to the globals they share (main.c takes no lock and      *)
(* disables no interrupt), so a key handler is modelled as a sequence of   *)
(* steps, one access to shared state per step, and a callback as one step. *)
(* Time is counted in ticks of MsPerTick milliseconds.                     *)
(***************************************************************************)
EXTENDS Integers, Sequences, FiniteSets, TLC

\* ---------------------------------------------------------------- bounds
\* Number of tracks of the model (config.h sets 999).
NUM_TRACKS == 3
\* Milliseconds of one tick of the model's clock.
MsPerTick == 125
\* Most digits typed in one run (between two resets of the prompt).
MaxDigits == 2
\* Most digits typed in one run where the prompt's width is exercised.
WrapDigits == 5

\* ------------------------------------------------------- config.h values
KEYPAD_DEBOUNCE_US == 250000
INPUT_TIMEOUT_MS == 1000
PLAYER_POLL_MS == 350
PAUSED_OR_IDLE == 0
PLAYING == 1
STATUS == 0
PLAY == 1
VOLUMEDOWN == 2
VOLUMEUP == 3
EQ == 4
PAUSE == 5
RESUME == 6
\* uint16_t arithmetic.
UINT16_MOD == 65536
\* uint8_t arithmetic.
UINT8_MOD == 256
\* The last equalizer preset (next_eq_preset).
EQ_LAST == 5

\* Keypad identifiers of the switch of key_pressed / key_long_pressed.
KEY_RANDOM == 3
KEY_REPEAT == 7
KEY_VOLUP == 11
KEY_PREV == 12
KEY_ZERO == 13
KEY_NEXT == 14
KEY_PAUSE == 15
KEY_VOLDOWN == 16

CeilDiv(a, b) == (a + b - 1) \div b
DebounceTicks == CeilDiv(KEYPAD_DEBOUNCE_US, MsPerTick * 1000)
TimeoutTicks == CeilDiv(INPUT_TIMEOUT_MS, MsPerTick)
PollTicks == CeilDiv(PLAYER_POLL_MS, MsPerTick)

\* The digit a key types (the numeric cases of key_pressed), -1 for a key
\* that types none.
KeyDigit(key) ==
    CASE key = 0 -> 1
      [] key = 1 -> 2
      [] key = 2 -> 3
      [] key = 4 -> 4
      [] key = 5 -> 5
      [] key = 6 -> 6
      [] key = 8 -> 7
      [] key = 9 -> 8
      [] key = 10 -> 9
      [] key = KEY_ZERO -> 0
      [] OTHER -> -1

\* The keys the model presses: digits 0, 1, 2 and every function key.
DigitKeys == {KEY_ZERO, 0, 1}
ControlKeys == {KEY_PREV, KEY_NEXT, KEY_VOLDOWN, KEY_VOLUP, KEY_REPEAT, KEY_PAUSE}
\* Values dfplayer_get_status() returns.
StatusValues == {PAUSED_OR_IDLE, PLAYING}

VARIABLES
    \* globals of main.c
    status, is_paused, repeat, current_track, next_player_command,
    track_id_prompt, eq, shuffled_playlist, playlist_index,
    \* function statics
    random_seeded, last_player_status,
    \* alarm handles and the alarm pool
    type_timeout_alarm, scheduled_play_alarm, alarms, poll_timer,
    \* ticks since the press keypress_available() last accepted (capped)
    since_press,
    \* history of the keypad: ticks since the last short press, accepted or
    \* not (capped), and the presses accepted in the current run of presses
    \* that each came less than the debounce interval after the one before
    since_any, run_accepted,
    \* history: the draw before the last one (0: none), and the feedback the
    \* last step gave (blink, tone, melody)
    prev_draw, fb,
    \* the main loop: where the running key handler is, and the value of
    \* current_track it loaded
    pc, reg,
    \* history: the last request() not yet sent, what the last poll tick
    \* sent to the player, the draws of the shuffle cycle, the digits typed
    \* since the prompt was last zero, and the branch the last step took
    req, tx, drawn, ndigits, ev

vars == <<status, is_paused, repeat, current_track, next_player_command,
          track_id_prompt, eq, shuffled_playlist, playlist_index,
          random_seeded, last_player_status,
          type_timeout_alarm, scheduled_play_alarm, alarms, poll_timer,
          since_press, since_any, run_accepted, prev_draw, fb, pc, reg,
          req, tx, drawn, ndigits, ev>>

trackerVars == <<status, last_player_status>>
shuffleVars == <<shuffled_playlist, playlist_index, random_seeded, drawn,
                 prev_draw>>
debounceVars == <<since_any, run_accepted>>
entryVars == <<track_id_prompt, type_timeout_alarm, scheduled_play_alarm,
               alarms, ndigits>>

Min(a, b) == IF a < b THEN a ELSE b

NoReq == [cmd |-> STATUS, src |-> "none", v |-> 0, n |-> 0, at |-> 0]

Init ==
    /\ status = PAUSED_OR_IDLE
    /\ is_paused = FALSE
    /\ repeat = FALSE
    /\ current_track = 1
    /\ next_player_command = STATUS
    /\ track_id_prompt = 0
    /\ eq = 0
    /\ shuffled_playlist = [i \in 0..NUM_TRACKS |-> 0]
    /\ playlist_index = 1
    /\ random_seeded = FALSE
    /\ last_player_status = 0
    /\ type_timeout_alarm = 0
    /\ scheduled_play_alarm = 0
    /\ alarms = {}
    /\ poll_timer = PollTicks
    /\ since_press = 0
    /\ since_any = DebounceTicks
    /\ run_accepted = 0
    /\ prev_draw = 0
    /\ fb = {}
    /\ pc = "idle"
    /\ reg = 0
    /\ req = NoReq
    /\ tx = <<>>
    /\ drawn = <<>>
    /\ ndigits = 0
    /\ ev = "boot"


\* ---------------------------------------------------------- command queue
\* player_request that keeps a command already pending.
PlayerRequestKeepFirst(cur, command) == IF cur = STATUS THEN command ELSE cur

\* player_request: the value of next_player_command after the call, cur
\* being the value it held before.
PlayerRequest(cur, command) == command

\* History of a request() call made outside a poll tick.
Requested(command, src, v) ==
    [cmd |-> command, src |-> src, v |-> v, n |-> Min(2, req.n + 1),
     at |-> current_track]

Enqueue(command, src, v) ==
    /\ next_player_command' = PlayerRequest(next_player_command, command)
    /\ req' = Requested(command, src, v)

\* A drain that plays the track current when the request was made.
SentOpTrackAtRequest(command) ==
    [cmd |-> command,
     arg |-> IF command = PLAY THEN req.at
             ELSE IF command = EQ THEN eq ELSE 0,
     src |-> req.src, v |-> req.v, n |-> req.n, at |-> req.at]

\* The operation one case of the switch of poll_player sends to the player.
SentOp(command) ==
    [cmd |-> command,
     arg |-> IF command = PLAY THEN current_track
             ELSE IF command = EQ THEN eq ELSE 0,
     src |-> req.src, v |-> req.v, n |-> req.n, at |-> req.at]

\* A poll_player that leaves the pending command as it is.
PollResetKeep(c) == c

\* The assignment that ends poll_player, c being the pending command after
\* the switch.
PollReset(c) == STATUS

\* A switch without the case of PAUSE.
IsCommandNoPause(c) == c \in {PLAY, VOLUMEDOWN, VOLUMEUP, EQ, RESUME}

\* The cases of the switch of poll_player that send a command; every other
\* value goes to check_player_status.
IsCommand(c) == c \in {PLAY, VOLUMEDOWN, VOLUMEUP, EQ, PAUSE, RESUME}

\* ------------------------------------------------------ prev / next track
\* next_track that tests current_track <= NUM_TRACKS.
NextTrackGuardOffByOne(t) == t <= NUM_TRACKS

PrevTrackGuard(t) == t > 1
NextTrackGuard(t) == t < NUM_TRACKS

\* ------------------------------------------------- playback state tracker
\* A tracker that does not look at is_paused.
TrackCompletedWhilePaused(player_status, paused) == player_status = 0

TrackCompleted(player_status, paused) == player_status = 0 /\ ~paused

\* A tracker that acts on the level of the status, not on its edge.
StatusChangedAlways(player_status, last) == TRUE

\* if(player_status != last_player_status)
StatusChanged(player_status, last) == player_status # last

\* check_player_status with player_status read from the player; next_track
\* runs inside the callback, hence in one piece.
\* A tracker that calls next_track whether repeat is on or off.
TrackerAdvancesIgnoringRepeat(completed, rep, track) ==
    completed /\ NextTrackGuard(track)

\* check_player_status steps to the next track: the track completed, repeat
\* is off (the else of if(repeat)) and next_track finds a track to step to.
TrackerAdvances(completed, rep, track) ==
    completed /\ ~rep /\ NextTrackGuard(track)

CheckPlayerStatus(player_status) ==
    LET changed == StatusChanged(player_status, last_player_status)
        completed == changed /\ TrackCompleted(player_status, is_paused)
        advance == TrackerAdvances(completed, repeat, current_track)
    IN  [status |-> IF changed THEN player_status ELSE status,
         last |-> IF changed THEN player_status ELSE last_player_status,
         track |-> IF advance THEN (current_track + 1) % UINT16_MOD
                   ELSE current_track,
         repeat |-> IF advance THEN FALSE ELSE repeat,
         play |-> completed /\ (repeat \/ advance),
         branch |-> IF ~changed THEN "poll_same"
                    ELSE IF player_status # 0 THEN "poll_rise"
                    ELSE IF ~completed THEN "poll_fall_paused"
                    ELSE IF repeat THEN "poll_fall_repeat"
                    ELSE IF advance THEN "poll_fall_next"
                    ELSE "poll_fall_end"]

\* poll_player, the repeating timer callback.
PollPlayer ==
    /\ poll_timer = 0
    /\ poll_timer' = PollTicks
    /\ IF IsCommand(next_player_command)
       THEN /\ tx' = <<SentOp(next_player_command)>>
            /\ req' = NoReq
            /\ next_player_command' = PollReset(next_player_command)
            /\ ev' = "poll_cmd"
            /\ UNCHANGED <<trackerVars, current_track, repeat>>
       ELSE \E player_status \in StatusValues :
              LET r == CheckPlayerStatus(player_status)
                  afterSwitch == IF r.play
                                 THEN PlayerRequest(next_player_command, PLAY)
                                 ELSE next_player_command
              IN  /\ status' = r.status
                  /\ last_player_status' = r.last
                  /\ current_track' = r.track
                  /\ repeat' = r.repeat
                  /\ req' = IF r.play
                            THEN [cmd |-> PLAY, src |-> "tracker", v |-> 0,
                                  n |-> 0, at |-> r.track]
                            ELSE [req EXCEPT !.n = 0]
                  /\ tx' = <<[cmd |-> STATUS, arg |-> player_status,
                              src |-> "poll", v |-> 0, n |-> 0, at |-> 0]>>
                  /\ next_player_command' = PollReset(afterSwitch)
                  /\ ev' = r.branch
    /\ fb' = {}
    /\ UNCHANGED <<is_paused, eq, shuffleVars, entryVars, since_press,
                   debounceVars, pc, reg>>

\* ------------------------------------------------------------- alarm pool
\* A cancel_alarm that cancels nothing.
CancelAlarmNoop(A, handle, kind) == A

\* if(handle){ cancel_alarm(handle); }: removes the alarm the handle names
\* if it is still pending.
CancelAlarm(A, handle, kind) ==
    IF handle = 0 THEN A ELSE {a \in A : ~(a.kind = kind /\ a.cur)}

\* handle = add_alarm_in_ms(INPUT_TIMEOUT_MS, callback, NULL, true): the
\* handle now names the new alarm and no older one.  History: v is the
\* prompt the alarm was set for, final tells that no digit was added to
\* that prompt since.
AddAlarm(A, kind, v) ==
    {IF a.kind = kind THEN [a EXCEPT !.cur = FALSE] ELSE a : a \in A}
        \cup {[kind |-> kind, left |-> TimeoutTicks, cur |-> TRUE, v |-> v,
                final |-> TRUE]}

\* History: a digit was added to the prompt the pending commit alarms were
\* set for.
Superseded(A) ==
    {IF a.kind = "play" THEN [a EXCEPT !.final = FALSE] ELSE a : a \in A}

\* An input_timeout that also cancels the commit alarm.
InputTimeoutCancelsCommit ==
    \E a \in alarms :
        /\ a.kind = "type" /\ a.left = 0
        /\ alarms' = {b \in alarms : b.kind # "play"} \ {a}
        /\ track_id_prompt' = 0
        /\ ndigits' = 0
        /\ ev' = "input_timeout"
        /\ fb' = {}
        /\ UNCHANGED <<debounceVars, status, is_paused, repeat, current_track,
                       next_player_command, eq, shuffleVars, last_player_status,
                       type_timeout_alarm, scheduled_play_alarm, poll_timer,
                       since_press, pc, reg, req, tx>>

\* An input_timeout that leaves the prompt as it is.
InputTimeoutKeepsPrompt ==
    \E a \in alarms :
        /\ a.kind = "type" /\ a.left = 0
        /\ alarms' = alarms \ {a}
        /\ ndigits' = 0
        /\ ev' = "input_timeout"
        /\ fb' = {}
        /\ UNCHANGED <<debounceVars, status, is_paused, repeat, current_track,
                       next_player_command, eq, shuffleVars, last_player_status,
                       track_id_prompt, type_timeout_alarm,
                       scheduled_play_alarm, poll_timer, since_press, pc, reg,
                       req, tx>>

\* input_timeout, the alarm callback.
InputTimeout ==
    \E a \in alarms :
        /\ a.kind = "type" /\ a.left = 0
        /\ alarms' = alarms \ {a}
        /\ track_id_prompt' = 0
        /\ ndigits' = 0
        /\ ev' = "input_timeout"
        /\ fb' = {}
        /\ UNCHANGED <<debounceVars, status, is_paused, repeat, current_track,
                       next_player_command, eq, shuffleVars, last_player_status,
                       type_timeout_alarm, scheduled_play_alarm, poll_timer,
                       since_press, pc, reg, req, tx>>

\* scheduled_play, the alarm callback.  The history tells the alarm set for
\* the whole prompt of its run ("commit") from one set for a prefix and left
\* pending by the digits that followed ("commit_stale").  Alarms fire in the
\* order of their targets: type_track_id sets the inactivity alarm before
\* the commit alarm, for the same delay, so of two that are due the
\* inactivity alarm goes first.
ScheduledPlay ==
    \E a \in alarms :
        /\ a.kind = "play" /\ a.left = 0
        /\ \A b \in alarms : ~(b.kind = "type" /\ b.left = 0)
        /\ alarms' = alarms \ {a}
        /\ Enqueue(PLAY, IF a.final THEN "commit" ELSE "commit_stale", a.v)
        /\ ev' = "scheduled_play"
        /\ fb' = {}
        /\ UNCHANGED <<debounceVars, status, is_paused, repeat, current_track, eq,
                       shuffleVars, last_player_status, track_id_prompt,
                       type_timeout_alarm, scheduled_play_alarm, poll_timer,
                       since_press, pc, reg, tx, ndigits>>

\* button_onchange with the test of the level inverted (the pull-up
\* wiring): it acts on the release.
ButtonOnChangePullup(state) ==
    /\ IF state = 1
       THEN /\ Enqueue(PLAY, "button", 0)
            /\ ev' = "button_release"
            /\ fb' = {"blink"}
       ELSE /\ ev' = "button_press"
            /\ fb' = {}
            /\ UNCHANGED <<next_player_command, req>>
    /\ UNCHANGED <<status, is_paused, repeat, current_track, eq, shuffleVars,
                   last_player_status, entryVars, poll_timer, since_press,
                   debounceVars, pc, reg, tx>>

\* button_onchange, the callback of the extra button (one button, on
\* BUTTON_1_PIN); state is the level read, 1 on release.
ButtonOnChange(state) ==
    /\ IF state = 1
       THEN /\ ev' = "button_release"
            /\ fb' = {}
            /\ UNCHANGED <<next_player_command, req>>
       ELSE /\ Enqueue(PLAY, "button", 0)
            /\ ev' = "button_press"
            /\ fb' = {"blink"}
    /\ UNCHANGED <<status, is_paused, repeat, current_track, eq, shuffleVars,
                   last_player_status, entryVars, poll_timer, since_press,
                   debounceVars, pc, reg, tx>>


\* --------------------------------------------------------------- shuffle
\* An exchange that does not go through temp.
SwapNoTemp(p, r1, r2) == [p EXCEPT ![r1] = p[r2]]

\* One exchange of randomize_playlist (through temp).
Swap(p, r1, r2) == [p EXCEPT ![r1] = p[r2], ![r2] = p[r1]]

\* The playlists k more exchanges can leave, r1 and r2 being
\* rand() % NUM_TRACKS + 1.
RECURSIVE SwapRounds(_, _)
SwapRounds(S, k) ==
    IF k = 0 THEN S
    ELSE SwapRounds({Swap(p, r1, r2) :
                        p \in S, r1 \in 1..NUM_TRACKS, r2 \in 1..NUM_TRACKS},
                    k - 1)

\* Every outcome of randomize_playlist: the identity fill, then
\* NUM_TRACKS*2 exchanges.
RandomizePlaylist ==
    SwapRounds({[i \in 0..NUM_TRACKS |-> i]}, NUM_TRACKS * 2)

\* ------------------------------------------------- key handlers, 1st step
\* A range test that lets a prompt of zero through.
InRangeOrZero(p) == p <= NUM_TRACKS

\* The range test of type_track_id.
InRange(p) == p > 0 /\ p <= NUM_TRACKS

\* type_track_id(n) up to the range test: the inactivity alarm is cancelled
\* and set again, the prompt takes the digit.  input_timeout cannot run
\* between these statements (its alarm was just set INPUT_TIMEOUT_MS ahead).
TypeTrackId(n) ==
    /\ alarms' = AddAlarm(CancelAlarm(IF ndigits > 0 THEN Superseded(alarms)
                                       ELSE alarms,
                                       type_timeout_alarm, "type"),
                          "type", 0)
    /\ type_timeout_alarm' = 1
    /\ track_id_prompt' = (track_id_prompt * 10 + n) % UINT16_MOD
    /\ ndigits' = ndigits + 1
    /\ IF InRange(track_id_prompt')
       THEN pc' = "type_set_track" /\ ev' = "digit_valid"
       ELSE pc' = "idle" /\ ev' = "digit_invalid"
    /\ UNCHANGED <<status, is_paused, repeat, current_track,
                   next_player_command, eq, shuffleVars, last_player_status,
                   scheduled_play_alarm, poll_timer, reg, req, tx>>

\* prev_track: the test of current_track.
PrevTrack ==
    /\ IF PrevTrackGuard(current_track)
       THEN pc' = "prev_dec" /\ reg' = current_track
       ELSE pc' = "idle" /\ reg' = reg
    /\ ev' = "key_prev"
    /\ UNCHANGED <<status, is_paused, repeat, current_track,
                   next_player_command, eq, shuffleVars, last_player_status,
                   entryVars, poll_timer, req, tx>>

\* next_track: the test of current_track.
NextTrack ==
    /\ IF NextTrackGuard(current_track)
       THEN pc' = "next_inc" /\ reg' = current_track
       ELSE pc' = "idle" /\ reg' = reg
    /\ ev' = "key_next"
    /\ UNCHANGED <<status, is_paused, repeat, current_track,
                   next_player_command, eq, shuffleVars, last_player_status,
                   entryVars, poll_timer, req, tx>>

\* random_track up to the assignment of current_track.
RandomTrack ==
    /\ IF random_seeded
       THEN shuffled_playlist' = shuffled_playlist
       ELSE shuffled_playlist' \in RandomizePlaylist
    /\ random_seeded' = TRUE
    /\ current_track' = shuffled_playlist'[playlist_index]
    /\ drawn' = IF playlist_index = 1
                THEN <<shuffled_playlist'[playlist_index]>>
                ELSE Append(drawn, shuffled_playlist'[playlist_index])
    /\ prev_draw' = IF drawn = <<>> THEN 0 ELSE drawn[Len(drawn)]
    /\ pc' = "random_req"
    /\ ev' = "key_random"
    /\ UNCHANGED <<status, is_paused, repeat, next_player_command, eq,
                   playlist_index, last_player_status, entryVars, poll_timer,
                   reg, req, tx>>

\* The volume keys: player_request(command).
KeyVolume(command) ==
    /\ Enqueue(command, "key", 0)
    /\ ev' = "key_volume"
    /\ UNCHANGED <<status, is_paused, repeat, current_track, eq, shuffleVars,
                   last_player_status, entryVars, poll_timer, pc, reg, tx>>

\* toggle_repeat.  The one callback that writes repeat (next_track in the
\* tracker) stores false, and only when repeat is false, so the read and
\* the write of this statement need no separate steps.
ToggleRepeat ==
    /\ repeat' = ~repeat
    /\ ev' = "key_repeat"
    /\ UNCHANGED <<status, is_paused, current_track, next_player_command, eq,
                   shuffleVars, last_player_status, entryVars, poll_timer,
                   pc, reg, req, tx>>

\* toggle_pause up to player_request.
TogglePause ==
    /\ Enqueue(IF is_paused THEN RESUME ELSE PAUSE, "key", 0)
    /\ pc' = "pause_flag"
    /\ ev' = "key_pause"
    /\ UNCHANGED <<status, is_paused, repeat, current_track, eq, shuffleVars,
                   last_player_status, entryVars, poll_timer, reg, tx>>

\* A gate that is always open.
KeypressAvailableAlways(since) == TRUE

\* A gate that wants more than the debounce interval.
KeypressAvailableStrict(since) == since > DebounceTicks

\* keypress_available: since is the time since the press it last accepted.
KeypressAvailable(since) == ~(since < DebounceTicks)

\* The tone or melody that follows the handler of a key in key_pressed.
KeyFeedback(key) ==
    IF KeyDigit(key) >= 0 \/ key \in {KEY_PREV, KEY_NEXT} THEN {"tone"}
    ELSE IF key = KEY_REPEAT THEN {"melody"}
    ELSE {}

\* key_pressed(key): the debounce gate, the blink, then the switch.
KeyPressed(key) ==
    /\ pc = "idle"
    /\ IF ~KeypressAvailable(since_press)
       THEN /\ ev' = "debounced"
            /\ fb' = {}
            /\ UNCHANGED <<status, is_paused, repeat, current_track,
                           next_player_command, eq, shuffleVars,
                           last_player_status, entryVars, poll_timer,
                           since_press, pc, reg, req, tx>>
       ELSE /\ since_press' = 0
            /\ CASE KeyDigit(key) >= 0 -> TypeTrackId(KeyDigit(key))
                 [] key = KEY_PREV -> PrevTrack
                 [] key = KEY_NEXT -> NextTrack
                 [] key = KEY_RANDOM -> RandomTrack
                 [] key = KEY_VOLDOWN -> KeyVolume(VOLUMEDOWN)
                 [] key = KEY_VOLUP -> KeyVolume(VOLUMEUP)
                 [] key = KEY_REPEAT -> ToggleRepeat
                 [] key = KEY_PAUSE -> TogglePause
            /\ fb' = {"blink"} \cup (IF pc' = "idle" THEN KeyFeedback(key)
                                     ELSE {})
    /\ since_any' = 0
    /\ run_accepted' = Min(2, (IF since_any < DebounceTicks THEN run_accepted
                                ELSE 0)
                              + (IF ev' = "debounced" THEN 0 ELSE 1))

\* ------------------------------------------------------------ long press
\* next_eq_preset, eq++: the build stores the sum, or only the value the
\* test that follows leaves.
NextEqPreset ==
    \E e \in {(eq + 1) % UINT8_MOD,
               IF (eq + 1) % UINT8_MOD > EQ_LAST THEN 0
               ELSE (eq + 1) % UINT8_MOD} :
        eq' = e

\* The switch of key_long_pressed(key), up to the first access to shared
\* state.
LongPressHandled(key) ==
    /\ IF key = KEY_ZERO
       THEN /\ NextEqPreset
            /\ pc' = "eq_wrap"
            /\ fb' = {}
            /\ ev' = "long_eq"
       ELSE /\ eq' = eq
            /\ pc' = "idle"
            /\ fb' = {"blink", "tone"}
            /\ ev' = "long_other"
    /\ UNCHANGED <<status, is_paused, repeat, current_track,
                   next_player_command, shuffleVars, last_player_status,
                   entryVars, poll_timer, reg, req, tx>>

\* key_long_pressed behind the debounce gate of key_pressed.
KeyLongPressedGated(key) ==
    /\ pc = "idle"
    /\ IF ~KeypressAvailable(since_press)
       THEN /\ ev' = IF key = KEY_ZERO THEN "long_eq" ELSE "long_other"
            /\ fb' = {}
            /\ UNCHANGED <<status, is_paused, repeat, current_track,
                           next_player_command, eq, shuffleVars,
                           last_player_status, entryVars, poll_timer,
                           since_press, pc, reg, req, tx>>
       ELSE /\ since_press' = 0
            /\ LongPressHandled(key)
    /\ UNCHANGED debounceVars

\* key_long_pressed(key): no call of keypress_available.
KeyLongPressed(key) ==
    /\ pc = "idle"
    /\ LongPressHandled(key)
    /\ UNCHANGED <<since_press, debounceVars>>

\* next_eq_preset: if(eq > 5){ eq = 0; }
EqWrap ==
    /\ pc = "eq_wrap"
    /\ eq' = IF eq > EQ_LAST THEN 0 ELSE eq
    /\ pc' = "eq_req"
    /\ ev' = "eq_wrap"
    /\ fb' = {}
    /\ UNCHANGED <<status, is_paused, repeat, current_track,
                   next_player_command, shuffleVars, last_player_status,
                   entryVars, poll_timer, since_press, debounceVars, reg,
                   req, tx>>

\* next_eq_preset: player_request(EQ); then the blink and the tone of
\* key_long_pressed.
EqRequest ==
    /\ pc = "eq_req"
    /\ Enqueue(EQ, "key", 0)
    /\ pc' = "idle"
    /\ ev' = "eq_req"
    /\ fb' = {"blink", "tone"}
    /\ UNCHANGED <<status, is_paused, repeat, current_track, eq, shuffleVars,
                   last_player_status, entryVars, poll_timer, since_press,
                   debounceVars, reg, tx>>

\* ----------------------------------------------- key handlers, next steps
\* type_track_id: current_track = track_id_prompt.
TypeSetTrack ==
    /\ pc = "type_set_track"
    /\ current_track' = track_id_prompt
    /\ pc' = "type_schedule"
    /\ ev' = "type_set_track"
    /\ fb' = {}
    /\ UNCHANGED <<status, is_paused, repeat, next_player_command, eq,
                   shuffleVars, last_player_status, entryVars, poll_timer,
                   since_press, debounceVars, reg, req, tx>>

\* type_track_id: the commit alarm is cancelled and set again; then the
\* tone of key_pressed.
TypeSchedule ==
    /\ pc = "type_schedule"
    /\ alarms' = AddAlarm(CancelAlarm(alarms, scheduled_play_alarm, "play"),
                          "play", track_id_prompt)
    /\ scheduled_play_alarm' = 1
    /\ pc' = "idle"
    /\ ev' = IF CancelAlarm(alarms, scheduled_play_alarm, "play") # alarms
             THEN "type_reschedule" ELSE "type_schedule"
    /\ fb' = {"tone"}
    /\ UNCHANGED <<status, is_paused, repeat, current_track,
                   next_player_command, eq, shuffleVars, last_player_status,
                   track_id_prompt, type_timeout_alarm, ndigits, poll_timer,
                   since_press, debounceVars, reg, req, tx>>

\* current_track-- / current_track++: the build either keeps the value the
\* test loaded or loads current_track again.
StepTrack(at, delta, to) ==
    /\ pc = at
    /\ \E base \in {reg, current_track} :
          current_track' = (base + delta) % UINT16_MOD
    /\ pc' = to
    /\ ev' = at
    /\ fb' = {}
    /\ UNCHANGED <<status, is_paused, repeat, next_player_command, eq,
                   shuffleVars, last_player_status, entryVars, poll_timer,
                   since_press, debounceVars, reg, req, tx>>

\* player_request(PLAY) of prev_track / next_track.
StepRequest(at, to) ==
    /\ pc = at
    /\ Enqueue(PLAY, "key", 0)
    /\ pc' = to
    /\ ev' = at
    /\ fb' = {}
    /\ UNCHANGED <<status, is_paused, repeat, current_track, eq, shuffleVars,
                   last_player_status, entryVars, poll_timer, since_press,
                   debounceVars, reg, tx>>

\* prev_track / next_track without the last assignment.
StepKeepRepeat(at) ==
    /\ pc = at
    /\ pc' = "idle"
    /\ ev' = IF repeat THEN "repeat_cancelled" ELSE at
    /\ fb' = {"tone"}
    /\ UNCHANGED <<status, is_paused, repeat, current_track,
                   next_player_command, eq, shuffleVars, last_player_status,
                   entryVars, poll_timer, since_press, debounceVars, reg, req,
                   tx>>

\* repeat = false of prev_track / next_track ("repeat_cancelled" when repeat
\* was on); then the tone of key_pressed.
StepNoRepeat(at) ==
    /\ pc = at
    /\ repeat' = FALSE
    /\ pc' = "idle"
    /\ ev' = IF repeat THEN "repeat_cancelled" ELSE at
    /\ fb' = {"tone"}
    /\ UNCHANGED <<status, is_paused, current_track, next_player_command, eq,
                   shuffleVars, last_player_status, entryVars, poll_timer,
                   since_press, debounceVars, reg, req, tx>>

PrevTrackSteps ==
    \/ StepTrack("prev_dec", -1, "prev_req")
    \/ StepRequest("prev_req", "prev_norepeat")
    \/ StepNoRepeat("prev_norepeat")

NextTrackSteps ==
    \/ StepTrack("next_inc", 1, "next_req")
    \/ StepRequest("next_req", "next_norepeat")
    \/ StepNoRepeat("next_norepeat")

\* random_track from player_request on: the cursor moves, and past the end
\* the playlist is drawn again.
RandomRequest ==
    /\ pc = "random_req"
    /\ Enqueue(PLAY, "key", 0)
    /\ IF playlist_index + 1 > NUM_TRACKS
       THEN /\ shuffled_playlist' \in RandomizePlaylist
            /\ playlist_index' = 1
       ELSE /\ shuffled_playlist' = shuffled_playlist
            /\ playlist_index' = playlist_index + 1
    /\ pc' = "idle"
    /\ ev' = "random_req"
    /\ fb' = {}
    /\ UNCHANGED <<status, is_paused, repeat, current_track, eq,
                   random_seeded, drawn, prev_draw, last_player_status,
                   entryVars, poll_timer, since_press, debounceVars, reg, tx>>

\* toggle_pause: the assignment of is_paused (only the main loop writes it).
PauseFlag ==
    /\ pc = "pause_flag"
    /\ is_paused' = ~is_paused
    /\ pc' = "idle"
    /\ ev' = "pause_flag"
    /\ fb' = {}
    /\ UNCHANGED <<status, repeat, current_track, next_player_command, eq,
                   shuffleVars, last_player_status, entryVars, poll_timer,
                   since_press, debounceVars, reg, req, tx>>

\* ------------------------------------------------------------------ time
\* One tick passes: no callback is due, and a key handler takes less than a
\* tick.
Tick ==
    /\ pc = "idle"
    /\ poll_timer > 0
    /\ \A a \in alarms : a.left > 0
    /\ poll_timer' = poll_timer - 1
    /\ alarms' = {[a EXCEPT !.left = @ - 1] : a \in alarms}
    /\ since_press' = Min(DebounceTicks, since_press + 1)
    /\ since_any' = Min(DebounceTicks, since_any + 1)
    /\ ev' = "tick"
    /\ fb' = {}
    /\ UNCHANGED <<status, is_paused, repeat, current_track,
                   next_player_command, track_id_prompt, eq, shuffleVars,
                   last_player_status, type_timeout_alarm,
                   scheduled_play_alarm, run_accepted, pc, reg, req, tx,
                   ndigits>>

\* -------------------------------------------------------- specifications
\* The control keys, the button, the poll and the clock.
Next ==
    \/ \E key \in ControlKeys : KeyPressed(key)
    \/ PrevTrackSteps
    \/ NextTrackSteps
    \/ PauseFlag
    \/ \E state \in {0, 1} : ButtonOnChange(state)
    \/ PollPlayer
    \/ Tick

Spec == Init /\ [][Next]_vars

\* Numeric entry: the digit keys, the two alarms, the poll and the clock.
NextEntry ==
    \/ \E key \in DigitKeys : ndigits < MaxDigits /\ KeyPressed(key)
    \/ TypeSetTrack
    \/ TypeSchedule
    \/ InputTimeout
    \/ ScheduledPlay
    \/ PollPlayer
    \/ Tick

SpecEntry == Init /\ [][NextEntry]_vars

\* Numeric entry with the scheduling the hardware gives: the clock keeps
\* running, an alarm that is due fires (the alarm pool's IRQ), the repeating
\* timer fires, and a key handler that was entered runs to its end.  Key
\* presses are the user's and get no fairness.
SpecEntryFair ==
    /\ SpecEntry
    /\ WF_vars(Tick)
    /\ WF_vars(InputTimeout)
    /\ WF_vars(ScheduledPlay)
    /\ WF_vars(PollPlayer)
    /\ WF_vars(TypeSetTrack)
    /\ WF_vars(TypeSchedule)

\* Long numbers: the keys of the digits 3, 5, 6 and 7, enough of them in
\* one run to pass the width of track_id_prompt.
WrapKeys == {2, 5, 6, 8}

NextWrap ==
    \/ \E key \in WrapKeys : ndigits < WrapDigits /\ KeyPressed(key)
    \/ TypeSetTrack
    \/ TypeSchedule
    \/ InputTimeout
    \/ ScheduledPlay
    \/ PollPlayer
    \/ Tick

SpecWrap == Init /\ [][NextWrap]_vars

\* Shuffle: the random-track key, the poll and the clock.
NextShuffle ==
    \/ KeyPressed(KEY_RANDOM)
    \/ RandomRequest
    \/ PollPlayer
    \/ Tick

SpecShuffle == Init /\ [][NextShuffle]_vars

\* Long presses, with a short-press key and the button beside them.
LongKeys == {KEY_ZERO, KEY_VOLUP}

NextLong ==
    \/ \E key \in LongKeys : KeyLongPressed(key)
    \/ EqWrap
    \/ EqRequest
    \/ KeyPressed(KEY_VOLUP)
    \/ \E state \in {0, 1} : ButtonOnChange(state)
    \/ PollPlayer
    \/ Tick

SpecLong == Init /\ [][NextLong]_vars

\* ------------------------------------------------------------ the claims
\* A poll tick that reads the player fell from busy to not busy.
StatusFell == last_player_status = PLAYING /\ last_player_status' = PAUSED_OR_IDLE

\* C1: a poll tick that sees busy -> not busy with repeat and pause off
\* leaves current_track = t+1 and Play pending when t < NUM_TRACKS, and
\* leaves current_track and an empty queue when t = NUM_TRACKS.
C1_CompletionEnqueuesNext ==
    [][(StatusFell /\ ~repeat /\ ~is_paused) =>
         IF current_track < NUM_TRACKS
         THEN current_track' = current_track + 1 /\ next_player_command' = PLAY
         ELSE current_track' = current_track /\ next_player_command' = STATUS]_vars

\* C2: a poll tick that sees busy -> not busy with repeat on and pause off
\* leaves Play pending and current_track as it was.
C2_CompletionRepeats ==
    [][(StatusFell /\ repeat /\ ~is_paused) =>
         (next_player_command' = PLAY /\ current_track' = current_track)]_vars

\* C3: a command passed to request() that no later request replaced and
\* that no tick has sent yet is still the pending command, so that the
\* next tick sends it.
C3_RequestStaysPending ==
    req.cmd # STATUS => next_player_command = req.cmd


\* C4: when the last digit of a run left a prompt v in 1..NUM_TRACKS, the
\* Play its commit alarm enqueues (one alarm, due a timeout after that
\* digit) is sent to the player as play(v).
C4_CommitPlaysTypedTrack ==
    (tx # <<>> /\ tx[1].cmd = PLAY /\ tx[1].src = "commit")
        => tx[1].arg = tx[1].v

\* C5: the commit alarm never enqueues Play while the prompt is above
\* NUM_TRACKS (a digit pushed it there and the inactivity timeout has not
\* reset it).
C5_NoPlayAfterOverflow ==
    ev = "scheduled_play" => track_id_prompt <= NUM_TRACKS


\* C6: current_track is in 1..NUM_TRACKS in every reachable state, and so
\* is the track of every play() sent to the player.
C6_TrackInRange ==
    /\ current_track \in 1..NUM_TRACKS
    /\ (tx # <<>> /\ tx[1].cmd = PLAY) => tx[1].arg \in 1..NUM_TRACKS


\* C7: when requests were made since the last poll tick, the tick sends one
\* operation and it is the command of the last of them.
C7_LastRequestWins ==
    [][(poll_timer = 0 /\ poll_timer' = PollTicks
            /\ req.cmd # STATUS /\ req.src # "tracker") =>
         (Len(tx') = 1 /\ tx'[1].cmd = req.cmd)]_vars

\* Two requests were made between two ticks and the later tick sent one
\* volume step.
C7_Witness ==
    ev = "poll_cmd" /\ Len(tx) = 1 /\ tx[1].cmd = VOLUMEUP /\ tx[1].n = 2

\* C8: toggle_pause from the unpaused state makes Pause the pending command
\* and then sets is_paused; a poll tick that sees busy -> not busy while
\* is_paused is set requests nothing and leaves current_track, whatever
\* repeat is.
C8_PauseSuppressesCompletion ==
    [][/\ (ev' = "key_pause" /\ ~is_paused) =>
              (next_player_command' = PAUSE /\ req'.cmd = PAUSE
                   /\ pc' = "pause_flag")
       /\ (ev' = "pause_flag" /\ ~is_paused) => is_paused'
       /\ (StatusFell /\ is_paused) =>
              (/\ current_track' = current_track
               /\ next_player_command' = STATUS
               /\ req'.cmd = req.cmd /\ req'.src = req.src)]_vars

\* A tick saw busy -> not busy while paused, with repeat on.
C8_Witness ==
    ev = "poll_fall_paused" /\ is_paused /\ repeat

\* C9: the draws made since the playlist was last drawn are all different,
\* and NUM_TRACKS of them are every track of 1..NUM_TRACKS.
C9_FullCycleIsPermutation ==
    /\ \A i, j \in 1..Len(drawn) : i # j => drawn[i] # drawn[j]
    /\ Len(drawn) = NUM_TRACKS =>
           {drawn[i] : i \in 1..NUM_TRACKS} = 1..NUM_TRACKS

\* A whole cycle was drawn, in another order than 1, 2, ...
C9_Witness ==
    /\ Len(drawn) = NUM_TRACKS
    /\ drawn[1] # 1
    /\ playlist_index = 1
    /\ pc = "idle"

\* C10: next_track at NUM_TRACKS and prev_track at 1 return at once:
\* current_track and the queue are as before (from the key, and for
\* next_track from the tracker too).
C10_ClampedAtEnds ==
    [][/\ ((ev' = "key_next" /\ current_track = NUM_TRACKS)
              \/ (ev' = "key_prev" /\ current_track = 1)) =>
              (/\ current_track' = current_track
               /\ next_player_command' = next_player_command
               /\ req' = req
               /\ pc' = "idle")
       /\ (StatusFell /\ ~is_paused /\ ~repeat /\ current_track = NUM_TRACKS) =>
              (/\ current_track' = current_track
               /\ req'.cmd = req.cmd /\ req'.src = req.src)]_vars

\* The next key was handled at the last track.
C10_Witness ==
    ev = "key_next" /\ pc = "idle" /\ current_track = NUM_TRACKS

\* The steps key_pressed takes past the gate, and all its steps.
AcceptedPress ==
    {"digit_valid", "digit_invalid", "key_prev", "key_next", "key_random",
     "key_volume", "key_repeat", "key_pause"}
ShortPress == AcceptedPress \cup {"debounced"}

\* C11: of a run of short presses that each come less than the debounce
\* interval after the press before, one press at most is accepted.
C11_OneAcceptedPerRun ==
    run_accepted <= 1

\* C11, as the code has it: a press that comes less than the debounce
\* interval after the press before it is rejected exactly when it comes
\* less than the interval after the last accepted press.
C11_RunGatedByLastAccepted ==
    [][(ev' \in ShortPress /\ since_any < DebounceTicks) =>
          (ev' = "debounced" <=> since_press < DebounceTicks)]_vars

\* A second press of one run was accepted.
C11_Witness ==
    run_accepted = 2 /\ ev \in AcceptedPress

\* C12: a short press is accepted, and restarts the debounce interval,
\* exactly when the interval has passed since the last accepted press; a
\* rejected press changes no variable of the program and gives no
\* feedback.
C12_GateAndRejectedFrame ==
    [][/\ (ev' \in ShortPress) =>
              (ev' \in AcceptedPress <=> since_press >= DebounceTicks)
       /\ (ev' \in AcceptedPress) => (since_press' = 0 /\ "blink" \in fb')
       /\ (ev' = "debounced") =>
              (/\ fb' = {}
               /\ UNCHANGED <<since_press, track_id_prompt, current_track,
                              next_player_command, repeat, is_paused,
                              playlist_index, shuffled_playlist,
                              random_seeded, alarms, type_timeout_alarm,
                              scheduled_play_alarm, poll_timer, status,
                              last_player_status, eq, pc, reg>>)]_vars

\* A press was rejected one tick after an accepted one, with repeat on.
C12_Witness ==
    ev = "debounced" /\ since_press = 1 /\ run_accepted = 1 /\ repeat

\* C13: a random draw never returns the track the draw before it returned,
\* the draws on the two sides of a new shuffle included.
C13_NoImmediateRepeat ==
    drawn # <<>> => drawn[Len(drawn)] # prev_draw

\* The last steps of prev_track / next_track when they moved the track.
SeekDone == {"prev_norepeat", "next_norepeat", "repeat_cancelled"}

\* C14: when the handler of an accepted previous or next key has returned,
\* repeat is false, whatever current_track was.
C14_RepeatOffAfterSeek ==
    (pc = "idle" /\ ev \in SeekDone \cup {"key_prev", "key_next"}) => ~repeat

\* C14, as the code has it: prev_track above track 1 and next_track below
\* NUM_TRACKS end with repeat false; prev_track at 1 and next_track at
\* NUM_TRACKS leave repeat and current_track as they were.
C14_RepeatOffAfterStep ==
    [][/\ (ev' \in SeekDone) => ~repeat'
       /\ (ev' \in {"key_prev", "key_next"} /\ pc' = "idle") =>
              (repeat' = repeat /\ current_track' = current_track)]_vars

\* A previous or next key moved the track while repeat was on.
C14_Witness ==
    ev = "repeat_cancelled" /\ pc = "idle" /\ ~repeat

\* C15: a long press and a change of the button are handled whatever the
\* time since the last accepted short press, and they leave that time as it
\* is, so the short press that follows is gated as if they had not come.
C15_UngatedEvents ==
    [][/\ (ev' \in {"long_eq", "long_other", "button_press", "button_release"})
              => (since_press' = since_press /\ since_any' = since_any)
       /\ (ev' = "long_eq") => (pc' = "eq_wrap" /\ eq' # eq)
       /\ (ev' = "long_other") => fb' = {"blink", "tone"}
       /\ (ev' = "button_press") =>
              (next_player_command' = PLAY /\ fb' = {"blink"})]_vars

\* A long press of the equalizer key was handled in the tick in which a
\* short press was accepted.
C15_Witness ==
    ev = "long_eq" /\ pc = "eq_wrap" /\ since_press = 0 /\ run_accepted = 1

\* C16: a press of the button makes Play the pending command and changes
\* nothing else of the program; a release changes nothing and requests
\* nothing.
C16_ButtonRestartsOnly ==
    [][/\ (ev' \in {"button_press", "button_release"}) =>
              UNCHANGED <<current_track, repeat, is_paused, track_id_prompt,
                          playlist_index, shuffled_playlist, random_seeded,
                          alarms, type_timeout_alarm, scheduled_play_alarm,
                          poll_timer, since_press, status, last_player_status,
                          eq, pc, reg>>
       /\ (ev' = "button_press") =>
              (next_player_command' = PLAY /\ req'.cmd = PLAY)
       /\ (ev' = "button_release") =>
              (next_player_command' = next_player_command /\ req' = req
                   /\ fb' = {})]_vars

\* The button was pressed at track 2, with repeat on and the player
\* paused, and Play is pending.
C16_Witness ==
    /\ ev = "button_press" /\ next_player_command = PLAY
    /\ current_track = 2 /\ repeat /\ is_paused

\* A step of poll_player.
PollTick == poll_timer = 0 /\ poll_timer' = PollTicks

\* C17: a poll tick sends one operation to the player, the pending command
\* or, when none is pending, the status poll, and leaves no command
\* pending.
C17_OneOperationPerTick ==
    [][PollTick =>
          (/\ Len(tx') = 1
           /\ tx'[1].cmd = next_player_command
           /\ next_player_command' = STATUS)]_vars

\* A tick sent Pause and left the queue empty.
C17_Witness ==
    ev = "poll_cmd" /\ tx[1].cmd = PAUSE /\ next_player_command = STATUS

\* C18: every poll tick polls the status of the player, a command pending
\* or not.
C18_StatusPolledEveryTick ==
    [][PollTick => \E i \in 1..Len(tx') : tx'[i].cmd = STATUS]_vars

\* C18, as the code has it: a poll tick polls the status exactly when no
\* command is pending; a tick that sends a command leaves status and
\* last_player_status as they were.
C18_StatusPolledWhenIdle ==
    [][PollTick =>
          (/\ (\E i \in 1..Len(tx') : tx'[i].cmd = STATUS)
                  <=> next_player_command = STATUS
           /\ next_player_command # STATUS =>
                  UNCHANGED <<status, last_player_status, current_track,
                              repeat>>)]_vars

\* A tick sent a volume step and polled no status, the player last seen
\* busy.
C18_Witness ==
    ev = "poll_cmd" /\ tx[1].cmd = VOLUMEDOWN /\ last_player_status = PLAYING

\* C19: a status poll that reads the value last seen changes neither
\* status, current_track, repeat, is_paused nor the pending command; after
\* every status poll last_player_status is the value read.
C19_SameStatusNoAction ==
    [][(PollTick /\ tx'[1].cmd = STATUS) =>
          (/\ last_player_status' = tx'[1].arg
           /\ tx'[1].arg = last_player_status =>
                  UNCHANGED <<status, current_track, repeat, is_paused,
                              next_player_command>>)]_vars

\* A status poll read not busy again, not paused, with repeat on.
C19_Witness ==
    /\ ev = "poll_same" /\ tx[1].arg = PAUSED_OR_IDLE
    /\ last_player_status = PAUSED_OR_IDLE /\ ~is_paused /\ repeat

\* C20: at most one inactivity alarm and at most one commit alarm are
\* pending, each the one its handle names; no alarm is pending for a
\* handle never set.
C20_OneAlarmPerKind ==
    /\ Cardinality({a \in alarms : a.kind = "type"}) <= 1
    /\ Cardinality({a \in alarms : a.kind = "play"}) <= 1
    /\ \A a \in alarms : a.cur
    /\ type_timeout_alarm = 0 => ~\E a \in alarms : a.kind = "type"
    /\ scheduled_play_alarm = 0 => ~\E a \in alarms : a.kind = "play"

\* A digit cancelled a pending commit alarm and set a new one, next to the
\* inactivity alarm it had set again.
C20_Witness ==
    ev = "type_reschedule" /\ Cardinality(alarms) = 2

\* The commit alarms pending in the pool A, as the program sees them.
CommitPending(A) == {[left |-> a.left, cur |-> a.cur] : a \in {b \in A : b.kind = "play"}}

\* C21: input_timeout sets track_id_prompt to zero and leaves
\* current_track, the pending command, repeat, is_paused and a pending
\* commit alarm as they were.
C21_TimeoutResetsPromptOnly ==
    [][(ev' = "input_timeout") =>
          (/\ track_id_prompt' = 0
           /\ CommitPending(alarms') = CommitPending(alarms)
           /\ UNCHANGED <<current_track, next_player_command, req, repeat,
                          is_paused, scheduled_play_alarm, type_timeout_alarm,
                          status, last_player_status, eq, pc>>)]_vars

\* The inactivity alarm fired after track 2 was typed, the commit alarm
\* still pending.
C21_Witness ==
    /\ ev = "input_timeout" /\ track_id_prompt = 0 /\ current_track = 2
    /\ \E a \in alarms : a.kind = "play" /\ a.v = 2

\* A digit key was taken by type_track_id.
DigitTyped == {"digit_valid", "digit_invalid"}

C23_PromptIsDecimalValue ==
    [][(ev' \in DigitTyped) =>
          (/\ \E n \in 0..9 : track_id_prompt' = track_id_prompt * 10 + n
           /\ (track_id_prompt * 10 > NUM_TRACKS =>
                  (~InRange(track_id_prompt') /\ ev' = "digit_invalid")))]_vars

\* C24: wherever a poll tick can run the equalizer preset is in
\* 0..EQ_LAST, and every preset sent to the player is in 0..EQ_LAST.
C24_PresetInRange ==
    /\ (poll_timer = 0 => eq \in 0..EQ_LAST)
    /\ ((tx # <<>> /\ tx[1].cmd = EQ) => tx[1].arg \in 0..EQ_LAST)

\* C25: a callback that fired inside prev_track / next_track leaves the
\* state the handler would leave had the callback run entirely before it.
\* (The callback that wrote current_track between the handler's test and
\* its update read the player's status, which it does not do once the
\* handler has requested Play: so "entirely before" is the only order the
\* state can equal.)
C25_StepIsSerialisable ==
    [][/\ (pc = "next_inc" /\ pc' = "next_req" /\ current_track # reg) =>
             current_track' = IF NextTrackGuard(current_track)
                              THEN current_track + 1 ELSE current_track
       /\ (pc = "prev_dec" /\ pc' = "prev_req" /\ current_track # reg) =>
             current_track' = IF PrevTrackGuard(current_track)
                              THEN current_track - 1 ELSE current_track]_vars

\* C26: a poll tick, the tracker's advance to the next track included,
\* leaves repeat as it is; repeat changes only in toggle_repeat and in
\* the last statement of prev_track / next_track run from a key press.
C26_TrackerKeepsRepeat ==
    [][/\ PollTick => repeat' = repeat
       /\ (ev' = "poll_fall_next") =>
             (current_track' = current_track + 1 /\ repeat' = repeat)
       /\ (repeat' # repeat) =>
             ev' \in {"key_repeat", "repeat_cancelled"}]_vars

\* The tracker has advanced from track 1 to track 2 on a completion.
C26_Witness ==
    /\ ev = "poll_fall_next" /\ current_track = 2 /\ ~repeat
    /\ last_player_status = PAUSED_OR_IDLE /\ pc = "idle"

\* C27: is_paused is never set while the last of Play, Pause and Resume
\* sent to the player is Play or Resume: a poll tick that sends Play or
\* Resume, no key handler being under way, leaves is_paused false.
C27_PausedMeansPauseSentLast ==
    [][(PollTick /\ pc = "idle" /\ tx'[1].cmd \in {PLAY, RESUME}) =>
          ~is_paused']_vars

\* C28: a drained Play sends the value current_track holds at the drain
\* tick, whatever it held when the Play was requested.
C28_PlaySendsTrackAtDrain ==
    [][(PollTick /\ next_player_command = PLAY) =>
          (/\ Len(tx') = 1 /\ tx'[1].cmd = PLAY
           /\ tx'[1].arg = current_track
           /\ current_track' = current_track)]_vars

\* A Play requested by the commit alarm was drained after current_track
\* had changed: the track sent is not the one current at the request.
C28_Witness ==
    /\ ev = "poll_cmd" /\ tx[1].cmd = PLAY /\ tx[1].src = "commit"
    /\ tx[1].arg # tx[1].at /\ tx[1].arg = current_track

\* C29: after the k-th digit of a run, either a further digit is typed or
\* the inactivity alarm fires and the prompt returns to zero: the prompt
\* never stays non-zero for ever without further digits.
C29_PromptEventuallyReset ==
    \A k \in 1..MaxDigits :
        (ndigits = k) ~>
            (ndigits = k + 1 \/ (ev = "input_timeout" /\ track_id_prompt = 0))

\* The inactivity alarm has fired after the last digit of an entry and no
\* alarm is left.
C29_Witness ==
    /\ ev = "input_timeout" /\ track_id_prompt = 0 /\ alarms = {}
    /\ scheduled_play_alarm = 1 /\ since_press = DebounceTicks

====
